---- MODULE Spec2Model ----
(***************************************************************************)
(* Frequency scoring and ranking of lottery draw records                   *)
(* (src/src/frequency_calculator.py).                                      *)
(*                                                                         *)
(* A draw record is the dictionary csv.DictReader yields: a function from  *)
(* column names to cells; a cell is a text (a sequence of characters) or   *)
(* None (a short CSV line), and a column may be absent.  A score map is a  *)
(* Python dict: a sequence of <<number, score>> pairs with distinct        *)
(* numbers, in insertion order.  Floats are fixed-point: FIXED units = 1.0.*)
(***************************************************************************)
EXTENDS Integers, Sequences, FiniteSets, TLC

VARIABLES draws, frequencies, call, result, all_strategies, number_counts,
          strategies, csv_file

vars ==
    <<draws, frequencies, call, result, all_strategies, number_counts,
      strategies, csv_file>>

----------------------------------------------------------------------------
(* Bounds of the model *)

MaxDraws == 3

MaxItems == 3

MaxNum == 3

MaxScore == 2

MaxTop == 4

(* one float unit: 1.0 is FIXED, float(count) is count * FIXED *)
FIXED == 10 * 10 * 10

(* the default n of get_top_numbers *)
DEFAULT_N == 8

(* the default decay_factor of WeightedFrequencyStrategy, 2.0 *)
DEFAULT_DECAY == 2 * FIXED

BALL_COLUMNS == <<"bola 1", "bola 2", "bola 3", "bola 4", "bola 5", "bola 6">>

----------------------------------------------------------------------------
(* Cells and texts *)

None == [kind |-> "None", text |-> <<>>]

Str(t) == [kind |-> "str", text |-> t]

DigitChars == <<"0", "1", "2", "3", "4", "5", "6", "7", "8", "9">>

IsDigit(c) == \E i \in 1..10 : DigitChars[i] = c

DigitVal(c) == (CHOOSE i \in 1..10 : DigitChars[i] = c) - 1

(* str(n) for n >= 0: the decimal digits of n *)
RECURSIVE Txt(_)
Txt(n) == IF n < 10 THEN <<DigitChars[n + 1]>>
          ELSE Txt(n \div 10) \o <<DigitChars[(n % 10) + 1]>>

(* str.strip(): leading and trailing blanks removed *)
RECURSIVE Strip(_)
Strip(t) == IF t = <<>> THEN t
            ELSE IF Head(t) = " " THEN Strip(Tail(t))
            ELSE IF t[Len(t)] = " " THEN Strip(SubSeq(t, 1, Len(t) - 1))
            ELSE t

(* the digits of an integer literal: digits, single underscores between *)
RECURSIVE DigitsOk(_, _)
DigitsOk(t, prevDigit) ==
    IF t = <<>> THEN prevDigit
    ELSE IF IsDigit(Head(t)) THEN DigitsOk(Tail(t), TRUE)
    ELSE IF Head(t) = "_" /\ prevDigit THEN DigitsOk(Tail(t), FALSE)
    ELSE FALSE

RECURSIVE DigitsValue(_, _)
DigitsValue(t, acc) ==
    IF t = <<>> THEN acc
    ELSE IF Head(t) = "_" THEN DigitsValue(Tail(t), acc)
    ELSE DigitsValue(Tail(t), 10 * acc + DigitVal(Head(t)))

Ok(v) == [exc |-> "none", val |-> v]

Raise(e) == [exc |-> e, val |-> 0]

(* int(x) of the built-in: TypeError on None, ValueError on a text that is *)
(* no integer literal, else the value *)
PyInt(cell) ==
    IF cell.kind = "None" THEN Raise("TypeError")
    ELSE LET s == Strip(cell.text)
             signed == s # <<>> /\ Head(s) \in {"+", "-"}
             body == IF signed THEN Tail(s) ELSE s
         IN IF body = <<>> \/ ~DigitsOk(body, FALSE) THEN Raise("ValueError")
            ELSE IF signed /\ Head(s) = "-" THEN Ok(0 - DigitsValue(body, 0))
            ELSE Ok(DigitsValue(body, 0))

(* int(row[col]): KeyError when the column is absent *)
BallInt(row, col) ==
    IF col \notin DOMAIN row THEN Raise("KeyError") ELSE PyInt(row[col])

----------------------------------------------------------------------------
(* Python dict / Counter / defaultdict(float) as insertion-ordered pairs *)

Keys(m) == {m[i][1] : i \in 1..Len(m)}

Get(m, k, default) ==
    IF k \in Keys(m) THEN m[CHOOSE i \in 1..Len(m) : m[i][1] = k][2]
    ELSE default

(* m[k] += w, a missing key starting from 0 and going to the end *)
Inc(m, k, w) ==
    IF k \in Keys(m)
    THEN [i \in 1..Len(m) |-> IF m[i][1] = k THEN <<k, m[i][2] + w>> ELSE m[i]]
    ELSE Append(m, <<k, w>>)

(* float(count) *)
Float(c) == c * FIXED

(* {num: float(count) for num, count in counter.items()} *)
FloatValues(m) == [i \in 1..Len(m) |-> <<m[i][1], Float(m[i][2])>>]

Returned(m) == [exc |-> "none", value |-> m]

Raised(e) == [exc |-> e, value |-> <<>>]

(* s[start:] of a list, start possibly negative *)
SliceFrom(s, start) ==
    LET from == IF start < 0
                THEN (IF Len(s) + start < 0 THEN 0 ELSE Len(s) + start)
                ELSE (IF start > Len(s) THEN Len(s) ELSE start)
    IN SubSeq(s, from + 1, Len(s))

(* s[:n] of a list, n possibly negative *)
SliceTo(s, n) ==
    LET to == IF n < 0
              THEN (IF Len(s) + n < 0 THEN 0 ELSE Len(s) + n)
              ELSE (IF n > Len(s) THEN Len(s) ELSE n)
    IN SubSeq(s, 1, to)

----------------------------------------------------------------------------
(* SimpleFrequencyStrategy *)

(* SimpleRow counting a number once per record however often it occurs *)
RECURSIVE SimpleRowOncePerDraw(_, _, _)
SimpleRowOncePerDraw(st, row, k) ==
    IF k > Len(BALL_COLUMNS) THEN st
    ELSE LET number == BallInt(row, BALL_COLUMNS[k])
             seen == \E j \in 1..(k - 1) :
                        BallInt(row, BALL_COLUMNS[j]) = number
         IN IF number.exc = "none" /\ ~seen
            THEN SimpleRowOncePerDraw(Returned(Inc(st.value, number.val, 1)),
                                      row, k + 1)
            ELSE IF number.exc \in {"none", "ValueError", "KeyError"}
            THEN SimpleRowOncePerDraw(st, row, k + 1)
            ELSE Raised(number.exc)

(* the inner loop over BALL_COLUMNS, from column k on; st = [exc, value] *)
RECURSIVE SimpleRow(_, _, _)
SimpleRow(st, row, k) ==
    IF k > Len(BALL_COLUMNS) THEN st
    ELSE LET number == BallInt(row, BALL_COLUMNS[k])
         IN IF number.exc = "none"
            THEN SimpleRow(Returned(Inc(st.value, number.val, 1)), row, k + 1)
            ELSE IF number.exc \in {"ValueError", "KeyError"}
            THEN SimpleRow(st, row, k + 1)
            ELSE Raised(number.exc)

RECURSIVE SimpleRows(_, _, _)
SimpleRows(st, rows, i) ==
    IF i > Len(rows) \/ st.exc # "none" THEN st
    ELSE SimpleRows(SimpleRow(st, rows[i], 1), rows, i + 1)

(* SimpleCalculate counting the newest record twice *)
SimpleCalculateNewestTwice(rows) ==
    LET st == SimpleRows(Returned(<<>>), rows \o SliceFrom(rows, 0 - 1), 1)
    IN IF st.exc = "none" THEN Returned(FloatValues(st.value)) ELSE st

SimpleCalculate(rows) ==
    LET st == SimpleRows(Returned(<<>>), rows, 1)
    IN IF st.exc = "none" THEN Returned(FloatValues(st.value)) ELSE st

----------------------------------------------------------------------------
(* RecentOnlyStrategy *)

(* date.split('/')[-1]: the text after the last slash *)
RECURSIVE LastPart(_)
LastPart(t) ==
    IF \E i \in 1..Len(t) : t[i] = "/" THEN LastPart(Tail(t)) ELSE t

(* row.get('Data', '') *)
GetData(row) == IF "Data" \in DOMAIN row THEN row["Data"] ELSE Str(<<>>)

(* truth value of a cell: None and the empty text are false *)
Truthy(cell) == cell.kind = "str" /\ cell.text # <<>>

(* int(date.split('/')[-1]) *)
YearOf(cell) == PyInt(Str(LastPart(cell.text)))

(* the filter loop of the years mode; st = [exc, value], value the rows kept *)
RECURSIVE YearFilter(_, _, _, _)
YearFilter(st, rows, i, cutoff_year) ==
    IF i > Len(rows) \/ st.exc # "none" THEN st
    ELSE LET date == GetData(rows[i])
         IN IF ~Truthy(date) THEN YearFilter(st, rows, i + 1, cutoff_year)
            ELSE LET year == YearOf(date)
                 IN IF year.exc # "none" THEN Raised(year.exc)
                    ELSE IF year.val >= cutoff_year
                    THEN YearFilter(Returned(Append(st.value, rows[i])),
                                    rows, i + 1, cutoff_year)
                    ELSE YearFilter(st, rows, i + 1, cutoff_year)

(* recent_draws of RecentOnlyStrategy.calculate *)
RecentDraws(rows, n_items, mode) ==
    IF mode = "draws"
    THEN Returned(IF Len(rows) >= n_items THEN SliceFrom(rows, 0 - n_items)
                  ELSE rows)
    ELSE IF rows = <<>> THEN Returned(rows)
    ELSE LET most_recent_date == GetData(rows[Len(rows)])
         IN IF ~Truthy(most_recent_date) THEN Returned(rows)
            ELSE LET most_recent_year == YearOf(most_recent_date)
                 IN IF most_recent_year.exc # "none"
                    THEN Raised(most_recent_year.exc)
                    ELSE YearFilter(Returned(<<>>), rows, 1,
                                    most_recent_year.val - n_items + 1)

(* RecentRow with "except ValueError" alone: an absent column is fatal *)
RECURSIVE RecentRowValueErrorOnly(_, _, _)
RecentRowValueErrorOnly(st, row, k) ==
    IF k > Len(BALL_COLUMNS) THEN st
    ELSE LET number == BallInt(row, BALL_COLUMNS[k])
         IN IF number.exc = "none"
            THEN RecentRowValueErrorOnly(Returned(Inc(st.value, number.val, 1)),
                                         row, k + 1)
            ELSE IF number.exc = "ValueError"
            THEN RecentRowValueErrorOnly(st, row, k + 1)
            ELSE Raised(number.exc)

RECURSIVE RecentRow(_, _, _)
RecentRow(st, row, k) ==
    IF k > Len(BALL_COLUMNS) THEN st
    ELSE LET number == BallInt(row, BALL_COLUMNS[k])
         IN IF number.exc = "none"
            THEN RecentRow(Returned(Inc(st.value, number.val, 1)), row, k + 1)
            ELSE IF number.exc \in {"ValueError", "KeyError"}
            THEN RecentRow(st, row, k + 1)
            ELSE Raised(number.exc)

RECURSIVE RecentRows(_, _, _)
RecentRows(st, rows, i) ==
    IF i > Len(rows) \/ st.exc # "none" THEN st
    ELSE RecentRows(RecentRow(st, rows[i], 1), rows, i + 1)

RecentCalculate(rows, n_items, mode) ==
    LET recent_draws == RecentDraws(rows, n_items, mode)
    IN IF recent_draws.exc # "none" THEN recent_draws
       ELSE LET st == RecentRows(Returned(<<>>), recent_draws.value, 1)
            IN IF st.exc = "none" THEN Returned(FloatValues(st.value)) ELSE st

----------------------------------------------------------------------------
(* WeightedFrequencyStrategy; positions, decay factors and weights are     *)
(* fixed-point numbers of FIXED units                                      *)

(* math.exp(x), x >= 0 in fixed point: the series 1 + x + x^2/2! + ... *)
RECURSIVE ExpSeries(_, _, _, _)
ExpSeries(x, k, term, acc) ==
    IF term = 0 THEN acc
    ELSE LET next == (term * x) \div (k * FIXED)
         IN ExpSeries(x, k + 1, next, acc + next)

Exp(x) == ExpSeries(x, 1, FIXED, FIXED)

(* a * b and a / b of two fixed-point numbers *)
Mul(a, b) == (a * b) \div FIXED

Div(a, b) == (a * FIXED) \div b

(* the largest x math.exp(x) has a float for, about 709.782 *)
ExpMax == 709 * FIXED + 782

(* math.exp(x) raises OverflowError ("math range error") above ExpMax *)
MathExpOverflows(x) == x > ExpMax

(* ExpRatio with the quotient taken the other way round *)
ExpRatioInverted(x, y) ==
    IF MathExpOverflows(x) \/ MathExpOverflows(y)
    THEN Raise("OverflowError")
    ELSE Ok(Div(Exp(y), Exp(x)))

(* math.exp(x) / math.exp(y): the exception of whichever math.exp raises,  *)
(* else the quotient                                                       *)
ExpRatio(x, y) ==
    IF MathExpOverflows(x) \/ MathExpOverflows(y)
    THEN Raise("OverflowError")
    ELSE Ok(Div(Exp(x), Exp(y)))

(* _calculate_weight whose linear mode has no floor of 0.25 *)
_calculate_weightNoFloor(weight_mode, decay_factor, position) ==
    IF weight_mode = "recent_more"
    THEN ExpRatio(Mul(decay_factor, position), decay_factor)
    ELSE IF weight_mode = "recent_linear"
    THEN Ok(position)
    ELSE ExpRatio(Mul(decay_factor, FIXED - position), decay_factor)

(* _calculate_weight whose last branch is that of recent_more *)
_calculate_weightNoMirror(weight_mode, decay_factor, position) ==
    IF weight_mode = "recent_linear"
    THEN Ok((FIXED \div 4) + Mul((3 * FIXED) \div 4, position))
    ELSE ExpRatio(Mul(decay_factor, position), decay_factor)

(* _calculate_weight that knows its three modes only *)
_calculate_weightKnownModes(weight_mode, decay_factor, position) ==
    IF weight_mode = "recent_more"
    THEN ExpRatio(Mul(decay_factor, position), decay_factor)
    ELSE IF weight_mode = "recent_linear"
    THEN Ok((FIXED \div 4) + Mul((3 * FIXED) \div 4, position))
    ELSE IF weight_mode = "recent_less"
    THEN ExpRatio(Mul(decay_factor, FIXED - position), decay_factor)
    ELSE Raise("ValueError")

(* the weight as Ok(w), or the exception math.exp raises *)
_calculate_weight(weight_mode, decay_factor, position) ==
    IF weight_mode = "recent_more"
    THEN ExpRatio(Mul(decay_factor, position), decay_factor)
    ELSE IF weight_mode = "recent_linear"
    THEN Ok((FIXED \div 4) + Mul((3 * FIXED) \div 4, position))
    ELSE ExpRatio(Mul(decay_factor, FIXED - position), decay_factor)

(* draw_index / (total_draws - 1) if total_draws > 1 else 0 *)
Position(draw_index, total_draws) ==
    IF total_draws > 1 THEN Div(Float(draw_index), Float(total_draws - 1))
    ELSE 0

(* WeightedRow keyed by the column index instead of the number drawn *)
RECURSIVE WeightedRowKeyByColumn(_, _, _, _)
WeightedRowKeyByColumn(st, row, k, weight) ==
    IF k > Len(BALL_COLUMNS) THEN st
    ELSE LET number == BallInt(row, BALL_COLUMNS[k])
         IN IF number.exc = "none"
            THEN WeightedRowKeyByColumn(Returned(Inc(st.value, k, weight)),
                                        row, k + 1, weight)
            ELSE IF number.exc \in {"ValueError", "KeyError"}
            THEN WeightedRowKeyByColumn(st, row, k + 1, weight)
            ELSE Raised(number.exc)

RECURSIVE WeightedRow(_, _, _, _)
WeightedRow(st, row, k, weight) ==
    IF k > Len(BALL_COLUMNS) THEN st
    ELSE LET number == BallInt(row, BALL_COLUMNS[k])
         IN IF number.exc = "none"
            THEN WeightedRow(Returned(Inc(st.value, number.val, weight)),
                             row, k + 1, weight)
            ELSE IF number.exc \in {"ValueError", "KeyError"}
            THEN WeightedRow(st, row, k + 1, weight)
            ELSE Raised(number.exc)

(* the loop over enumerate(draws); i is draw_index + 1 *)
RECURSIVE WeightedRows(_, _, _, _, _)
WeightedRows(st, rows, i, weight_mode, decay_factor) ==
    IF i > Len(rows) \/ st.exc # "none" THEN st
    ELSE LET position == Position(i - 1, Len(rows))
             weight == _calculate_weight(weight_mode, decay_factor, position)
         IN IF weight.exc # "none" THEN Raised(weight.exc)
            ELSE WeightedRows(WeightedRow(st, rows[i], 1, weight.val), rows,
                              i + 1, weight_mode, decay_factor)

WeightedCalculate(rows, weight_mode, decay_factor) ==
    WeightedRows(Returned(<<>>), rows, 1, weight_mode, decay_factor)

----------------------------------------------------------------------------
(* FrequencyCalculator.get_top_numbers *)

(* InsertDesc with x put before the entries of equal score *)
RECURSIVE InsertDescBeforeTies(_, _)
InsertDescBeforeTies(sorted, x) ==
    IF sorted = <<>> THEN <<x>>
    ELSE IF Head(sorted)[2] > x[2]
    THEN <<Head(sorted)>> \o InsertDescBeforeTies(Tail(sorted), x)
    ELSE <<x>> \o sorted

(* x put into a list sorted by score descending, behind every entry whose  *)
(* score is not smaller: sorted(..., reverse=True) is stable *)
RECURSIVE InsertDesc(_, _)
InsertDesc(sorted, x) ==
    IF sorted = <<>> THEN <<x>>
    ELSE IF Head(sorted)[2] >= x[2] THEN <<Head(sorted)>> \o InsertDesc(Tail(sorted), x)
    ELSE <<x>> \o sorted

(* SortedByScore without reverse=True: ascending scores *)
RECURSIVE SortedByScoreAscending(_)
SortedByScoreAscending(items) ==
    IF items = <<>> THEN <<>>
    ELSE LET rest == SortedByScoreAscending(SubSeq(items, 1, Len(items) - 1))
             x == items[Len(items)]
             before == Cardinality({i \in 1..Len(rest) : rest[i][2] <= x[2]})
         IN SubSeq(rest, 1, before) \o <<x>> \o SubSeq(rest, before + 1, Len(rest))

(* sorted(frequencies.items(), key=lambda x: x[1], reverse=True) *)
RECURSIVE SortedByScore(_)
SortedByScore(items) ==
    IF items = <<>> THEN <<>>
    ELSE InsertDesc(SortedByScore(SubSeq(items, 1, Len(items) - 1)),
                    items[Len(items)])

(* get_top_numbers with the slice one entry too long *)
get_top_numbersOneMore(freqs, n) == SliceTo(SortedByScore(freqs), n + 1)

get_top_numbers(freqs, n) == SliceTo(SortedByScore(freqs), n)

----------------------------------------------------------------------------
(* Draw records as the loader yields them *)

NumCols == Len(BALL_COLUMNS)

Row(date, balls) ==
    [c \in {"Data"} \cup {BALL_COLUMNS[k] : k \in 1..NumCols} |->
        IF c = "Data" THEN date
        ELSE balls[CHOOSE k \in 1..NumCols : BALL_COLUMNS[k] = c]]

With(row, col, cell) == [row EXCEPT ![col] = cell]

Without(row, col) == [c \in (DOMAIN row) \ {col} |-> row[c]]

Nums(ns) == [k \in 1..NumCols |-> Str(Txt(ns[k]))]

Txt2(n) == IF n < 10 THEN <<"0">> \o Txt(n) ELSE Txt(n)

Date(d, m, y) == Str(Txt2(d) \o <<"/">> \o Txt2(m) \o <<"/">> \o Txt(y))

(* the three records of tests/conftest.py, in three consecutive years *)
Draw1 == Row(Date(11, 3, 1996), Nums(<<10, 20, 30, 40, 50, 60>>))

Draw2 == Row(Date(18, 3, 1997), Nums(<<5, 10, 15, 20, 25, 30>>))

Draw3 == Row(Date(25, 3, 1998), Nums(<<10, 20, 30, 35, 45, 55>>))

(* a number twice in one record, the higher numbers first *)
DrawRepeat == Row(Date(31, 12, 1998), Nums(<<20, 10, 10, 9, 8, 7>>))

(* integer texts int() accepts: blanks, signs, leading zeros, underscores, *)
(* values outside 1..60 *)
DrawOddText ==
    Row(Date(1, 1, 1997),
        <<Str(<<" ", "7">>), Str(<<"+", "8">>), Str(<<"0", "0", "9">>),
          Str(<<"0">>), Str(<<"6", "1">>), Str(<<"-", "3">>)>>)

DrawNonNumeric == With(Draw2, "bola 2", Str(<<"x">>))

DrawEmptyCell == With(Draw3, "bola 5", Str(<<>>))

DrawNoColumn == Without(Draw1, "bola 3")

(* a short CSV line: csv.DictReader fills the missing cells with None *)
DrawShortLine == With(Draw2, "bola 6", None)

DrawNoDate == With(Draw1, "Data", Str(<<>>))

DrawDateNone == With(Draw3, "Data", None)

DrawDateMissing == Without(Draw2, "Data")

DrawBadYear == With(Draw2, "Data", Str(<<"n", "/", "a">>))

Records ==
    {Draw1, Draw2, Draw3, DrawRepeat, DrawOddText, DrawNonNumeric,
     DrawEmptyCell, DrawNoColumn, DrawShortLine, DrawNoDate, DrawDateNone,
     DrawDateMissing, DrawBadYear}

DrawSeqs == UNION {[1..k -> Records] : k \in 0..MaxDraws}

WeightModes == {"recent_more", "recent_linear", "recent_less"}

(* score maps: distinct numbers in any insertion order, any scores *)
ScoreMaps ==
    UNION {{m \in [1..k -> (1..MaxNum) \X {Float(x) : x \in 0..MaxScore}] :
               \A i, j \in 1..k : m[i][1] = m[j][1] => i = j} :
           k \in 0..MaxNum}

----------------------------------------------------------------------------
(* Operations *)

NoCall == [op |-> "none", mode |-> "", n |-> 0, decay |-> 0]

(* the file of a path at which there is none *)
NoFile == [exists |-> FALSE, lines |-> <<>>]

Init ==
    /\ draws \in DrawSeqs
    /\ frequencies = <<>>
    /\ call = NoCall
    /\ result = Returned(<<>>)
    /\ all_strategies = <<>>
    /\ number_counts = <<>>
    /\ strategies = <<>>
    /\ csv_file = NoFile

(* SimpleFrequencyStrategy().calculate(draws) *)
SimpleFrequency ==
    /\ call' = [op |-> "simple", mode |-> "", n |-> 0, decay |-> 0]
    /\ result' = SimpleCalculate(draws)
    /\ UNCHANGED <<draws, frequencies, all_strategies, number_counts,
                   strategies, csv_file>>

(* WeightedFrequencyStrategy(weight_mode, decay_factor).calculate(draws) *)
WeightedFrequency(weight_mode, decay_factor) ==
    /\ call' = [op |-> "weighted", mode |-> weight_mode, n |-> 0,
                decay |-> decay_factor]
    /\ result' = WeightedCalculate(draws, weight_mode, decay_factor)
    /\ UNCHANGED <<draws, frequencies, all_strategies, number_counts,
                   strategies, csv_file>>

(* RecentOnlyStrategy(n_items, mode).calculate(draws) *)
RecentOnly(n_items, mode) ==
    /\ call' = [op |-> "recent", mode |-> mode, n |-> n_items, decay |-> 0]
    /\ result' = RecentCalculate(draws, n_items, mode)
    /\ UNCHANGED <<draws, frequencies, all_strategies, number_counts,
                   strategies, csv_file>>

(* One strategy call on the loaded draws.  A strategy keeps nothing but its *)
(* constructor's configuration, so a call made after another one computes  *)
(* what the same call computes from the initial state.                     *)
Next ==
    \/ call = NoCall /\ SimpleFrequency
    \/ \E weight_mode \in WeightModes :
          call = NoCall /\ WeightedFrequency(weight_mode, DEFAULT_DECAY)
    \/ \E n_items \in 0..MaxItems, mode \in {"draws", "years"} :
          call = NoCall /\ RecentOnly(n_items, mode)

Spec == Init /\ [][Next]_vars

(* ranking of a score map *)
InitRank ==
    /\ draws = <<>>
    /\ frequencies \in ScoreMaps
    /\ call = NoCall
    /\ result = Returned(<<>>)
    /\ all_strategies = <<>>
    /\ number_counts = <<>>
    /\ strategies = <<>>
    /\ csv_file = NoFile

(* FrequencyCalculator().get_top_numbers(frequencies, n) *)
GetTopNumbers(n) ==
    /\ call' = [op |-> "top", mode |-> "", n |-> n, decay |-> 0]
    /\ result' = Returned(get_top_numbers(frequencies, n))
    /\ UNCHANGED <<draws, frequencies, all_strategies, number_counts,
                   strategies, csv_file>>

NextRank ==
    \E n \in (-1..MaxTop) \cup {DEFAULT_N} : call = NoCall /\ GetTopNumbers(n)

SpecRank == InitRank /\ [][NextRank]_vars

----------------------------------------------------------------------------
(* What the properties speak of *)

Cells(rows) == (1..Len(rows)) \X (1..NumCols)

CellInt(rows, c) == BallInt(rows[c[1]], BALL_COLUMNS[c[2]])

(* the ball cells that hold an integer text *)
IntegerCells(rows) == {c \in Cells(rows) : CellInt(rows, c).exc = "none"}

(* the ball cells that are malformed (no integer text) or missing (the     *)
(* column absent, or no value) *)
BadCells(rows) ==
    {c \in Cells(rows) :
        LET row == rows[c[1]]
            col == BALL_COLUMNS[c[2]]
        IN \/ col \notin DOMAIN row
           \/ row[col].kind = "None"
           \/ PyInt(row[col]).exc = "ValueError"}

NumbersIn(rows) == {CellInt(rows, c).val : c \in IntegerCells(rows)}

(* how many ball cells hold the number *)
Occurrences(rows, number) ==
    Cardinality({c \in IntegerCells(rows) : CellInt(rows, c).val = number})

(* how many records hold the number in some ball cell *)
DrawsContaining(rows, number) ==
    Cardinality({i \in 1..Len(rows) :
        \E c \in IntegerCells(rows) : c[1] = i /\ CellInt(rows, c).val = number})

RECURSIVE SumScores(_)
SumScores(m) == IF m = <<>> THEN 0 ELSE Head(m)[2] + SumScores(Tail(m))

(* two dicts are equal: same keys, same values, whatever the order *)
SameMap(a, b) ==
    /\ Keys(a) = Keys(b)
    /\ \A k \in Keys(a) : Get(a, k, 0) = Get(b, k, 0)

SameOutcome(r1, r2) == r1.exc = r2.exc /\ SameMap(r1.value, r2.value)

IndexOf(m, k) == CHOOSE i \in 1..Len(m) : m[i][1] = k

Min(a, b) == IF a < b THEN a ELSE b

----------------------------------------------------------------------------
(* C1 as stated: over records of six integer-text ball cells, the Simple   *)
(* strategy maps each number to the count of draws in which it appears.    *)
C1_CountOfDraws ==
    (call.op = "simple" /\ IntegerCells(draws) = Cells(draws)) =>
        /\ result.exc = "none"
        /\ Keys(result.value) = NumbersIn(draws)
        /\ \A number \in NumbersIn(draws) :
              Get(result.value, number, 0) = Float(DrawsContaining(draws, number))

(* C1 amended: over records of six integer-text ball cells, the Simple     *)
(* strategy maps each number to the count of ball cells holding it, a      *)
(* number repeated within one record counting once per cell.               *)
C1_CountOfCells ==
    (call.op = "simple" /\ IntegerCells(draws) = Cells(draws)) =>
        /\ result.exc = "none"
        /\ Keys(result.value) = NumbersIn(draws)
        /\ \A number \in NumbersIn(draws) :
              Get(result.value, number, 0) = Float(Occurrences(draws, number))

C1_Witness ==
    /\ call.op = "simple"
    /\ draws # <<>>
    /\ IntegerCells(draws) = Cells(draws)
    /\ \E number \in Keys(result.value) :
          /\ Get(result.value, number, 0) = Float(2)
          /\ DrawsContaining(draws, number) = 1

(* C2: the scores of the Simple strategy sum to 6 * len(D) minus the       *)
(* number of malformed or missing ball cells of D.                         *)
C2_SumOfScores ==
    call.op = "simple" =>
        /\ result.exc = "none"
        /\ SumScores(result.value)
              = Float(NumCols * Len(draws) - Cardinality(BadCells(draws)))

----------------------------------------------------------------------------
(* C3 as stated: get_top_numbers orders by score descending and, among     *)
(* equal scores, by number ascending, whatever the insertion order.        *)
C3_TiesByNumber ==
    call.op = "top" =>
        \A i, j \in 1..Len(result.value) :
            i < j =>
                \/ result.value[i][2] > result.value[j][2]
                \/ /\ result.value[i][2] = result.value[j][2]
                   /\ result.value[i][1] < result.value[j][1]

(* C3 amended: get_top_numbers orders by score descending and, among equal *)
(* scores, by the insertion order of the map.                              *)
C3_TiesByInsertion ==
    call.op = "top" =>
        \A i, j \in 1..Len(result.value) :
            i < j =>
                \/ result.value[i][2] > result.value[j][2]
                \/ /\ result.value[i][2] = result.value[j][2]
                   /\ IndexOf(frequencies, result.value[i][1])
                         < IndexOf(frequencies, result.value[j][1])

C3_Witness ==
    /\ call.op = "top"
    /\ \E i, j \in 1..Len(result.value) :
          /\ i < j
          /\ result.value[i][2] = result.value[j][2]
          /\ result.value[i][1] > result.value[j][1]

(* C4: for n >= 0, get_top_numbers returns exactly min(n, |scores|)        *)
(* entries, the default n being 8; an empty map gives an empty list.       *)
C4_Length ==
    (call.op = "top" /\ call.n >= 0) =>
        /\ result.exc = "none"
        /\ Len(result.value) = Min(call.n, Len(frequencies))

C4_Witness ==
    /\ call.op = "top"
    /\ call.n >= 1
    /\ call.n < Len(frequencies)
    /\ Len(result.value) = call.n

(* C5: the scores returned by get_top_numbers are non-increasing along the *)
(* list, every entry returned is an entry of the map, and no entry left    *)
(* out has a score strictly greater than an entry returned.                *)
C5_HighestScores ==
    call.op = "top" =>
        LET items == {frequencies[i] : i \in 1..Len(frequencies)}
            taken == {result.value[i] : i \in 1..Len(result.value)}
        IN /\ \A i \in 1..(Len(result.value) - 1) :
                 result.value[i][2] >= result.value[i + 1][2]
           /\ taken \subseteq items
           /\ \A out \in items \ taken : \A in \in taken : out[2] <= in[2]

C5_Witness ==
    /\ call.op = "top"
    /\ result.value # <<>>
    /\ \E i \in 1..Len(frequencies) :
          /\ \A k \in 1..Len(result.value) : result.value[k] # frequencies[i]
          /\ frequencies[i][2] < result.value[Len(result.value)][2]
          /\ i < IndexOf(frequencies, result.value[1][1])

----------------------------------------------------------------------------
(* the last n records of the sequence, or all when fewer exist *)
LastRecords(rows, n) ==
    IF Len(rows) < n THEN rows ELSE SubSeq(rows, Len(rows) - n + 1, Len(rows))

(* the record has a date whose last part is a year *)
HasYear(row) == Truthy(GetData(row)) /\ YearOf(GetData(row)).exc = "none"

(* the records of year cutoff or later, in their order *)
RecordsSince(rows, cutoff) ==
    LET keep == {i \in 1..Len(rows) :
                    HasYear(rows[i]) /\ YearOf(GetData(rows[i])).val >= cutoff}
        F[i \in 0..Len(rows)] ==
            IF i = 0 THEN <<>>
            ELSE IF i \in keep THEN Append(F[i - 1], rows[i]) ELSE F[i - 1]
    IN F[Len(rows)]

(* the map counts, with weight 1 per cell, the ball cells of the records *)
CountsCellsOf(m, rows) ==
    /\ Keys(m) = NumbersIn(rows)
    /\ \A number \in NumbersIn(rows) :
          Get(m, number, 0) = Float(Occurrences(rows, number))

(* C6: in draws mode, for every n_items >= 0, RecentOnlyStrategy returns   *)
(* the Simple result over only the last n_items records, or over all       *)
(* records when fewer exist.                                               *)
C6_LastRecords ==
    (call.op = "recent" /\ call.mode = "draws") =>
        SameOutcome(result, SimpleCalculate(LastRecords(draws, call.n)))

(* C7: in draws mode with n_items >= len(D), RecentOnlyStrategy returns    *)
(* exactly what SimpleFrequencyStrategy returns for D.                     *)
C7_WindowCoversAll ==
    (call.op = "recent" /\ call.mode = "draws" /\ call.n >= Len(draws)) =>
        SameOutcome(result, SimpleCalculate(draws))

C7_Witness ==
    /\ call.op = "recent"
    /\ call.mode = "draws"
    /\ call.n >= Len(draws)
    /\ Len(draws) >= 2
    /\ result.exc = "none"
    /\ \E number \in Keys(result.value) :
          Get(result.value, number, 0) = Float(Len(draws))

(* C8: in years mode, over a non-empty sequence whose last record has a    *)
(* date, RecentOnlyStrategy counts with weight 1 exactly the records whose *)
(* year is >= year of the last record - n_items + 1; over an empty         *)
(* sequence it returns an empty map.                                       *)
C8_YearsWindow ==
    (call.op = "recent" /\ call.mode = "years") =>
        IF draws = <<>> THEN result = Returned(<<>>)
        ELSE HasYear(draws[Len(draws)]) =>
                LET cutoff == YearOf(GetData(draws[Len(draws)])).val - call.n + 1
                IN /\ result.exc = "none"
                   /\ CountsCellsOf(result.value, RecordsSince(draws, cutoff))

(* C9: in years mode, when the date of the last record cannot be parsed    *)
(* into a year, RecentOnlyStrategy does not raise and counts the entire    *)
(* sequence.                                                               *)
C9_UnparseableDateFallsBack ==
    (/\ call.op = "recent"
     /\ call.mode = "years"
     /\ draws # <<>>
     /\ ~HasYear(draws[Len(draws)])) =>
        /\ result.exc # "ValueError"
        /\ SameOutcome(result, SimpleCalculate(draws))

(* C10: whatever a ball cell holds, calculate of each of the three         *)
(* strategies skips only that cell, does not raise, and counts the other   *)
(* cells of the record and of all other records.                           *)
C10_BadCellSkipped ==
    /\ call.op \in {"simple", "weighted"} =>
          /\ result.exc = "none"
          /\ Keys(result.value) = NumbersIn(draws)
    /\ call.op = "simple" => CountsCellsOf(result.value, draws)
    /\ (call.op = "recent" /\ call.mode = "draws") =>
          /\ result.exc = "none"
          /\ CountsCellsOf(result.value,
                           RecentDraws(draws, call.n, call.mode).value)

----------------------------------------------------------------------------
(* the numbers of the lottery *)
NumberDomain == 1..60

StrategyCall == call.op \in {"simple", "weighted", "recent"}

(* C11 as stated: over records whose ball cells hold any integer text, no  *)
(* strategy returns a ScoreMap with a key outside 1..60.                   *)
C11_KeysInDomain ==
    (StrategyCall /\ IntegerCells(draws) = Cells(draws) /\ result.exc = "none")
        => Keys(result.value) \subseteq NumberDomain

(* C11 amended: over records whose ball cells hold any integer text, the   *)
(* keys of the returned ScoreMap are integer values of ball cells (all of  *)
(* them for Simple and Weighted), so no key is outside 1..60 when every    *)
(* ball cell holds an integer of 1..60.                                    *)
C11_KeysAreCellValues ==
    (StrategyCall /\ IntegerCells(draws) = Cells(draws)) =>
        /\ call.op \in {"simple", "weighted"} =>
              result.exc = "none" /\ Keys(result.value) = NumbersIn(draws)
        /\ result.exc = "none" =>
              /\ Keys(result.value) \subseteq NumbersIn(draws)
              /\ NumbersIn(draws) \subseteq NumberDomain =>
                    Keys(result.value) \subseteq NumberDomain

C11_Witness ==
    /\ call.op = "weighted"
    /\ IntegerCells(draws) = Cells(draws)
    /\ result.exc = "none"
    /\ Keys(result.value) \cap NumberDomain # {}
    /\ Keys(result.value) \ NumberDomain # {}

(* the weight of the record at index i (from 1) of the call's sequence *)
WeightAt(i) ==
    _calculate_weight(call.mode, call.decay, Position(i - 1, Len(draws))).val

(* the sum over the ball cells holding the number of the weight of their   *)
(* record *)
WeightedSum(number) ==
    LET F[i \in 0..Len(draws)] ==
            IF i = 0 THEN 0
            ELSE F[i - 1]
                 + WeightAt(i) * Cardinality({c \in IntegerCells(draws) :
                       c[1] = i /\ CellInt(draws, c).val = number})
    IN F[Len(draws)]

(* C12: WeightedFrequencyStrategy.calculate gives each number the sum,     *)
(* over its occurrences in the record at index i, of weight(i/(total-1)),  *)
(* with position 0 when total <= 1.                                        *)
C12_SumOfWeights ==
    call.op = "weighted" =>
        /\ result.exc = "none"
        /\ Keys(result.value) = NumbersIn(draws)
        /\ \A number \in NumbersIn(draws) :
              Get(result.value, number, 0) = WeightedSum(number)

----------------------------------------------------------------------------
(* The recency weight on its own: _calculate_weight applied to one         *)
(* position.                                                               *)

(* the longest sequence whose positions are drawn *)
MaxTotal == 5

(* the positions calculate passes on: i / (total - 1), and 0 for one draw *)
Positions ==
    {Position(i, total) : i \in 0..(MaxTotal - 1), total \in 1..MaxTotal}
        \cap 0..FIXED

(* decay factors: 0.5, 1, 1.5, the default 2.0, 3, and one past the range  *)
(* of math.exp                                                             *)
DecayFactors ==
    {FIXED \div 2, FIXED, (3 * FIXED) \div 2, DEFAULT_DECAY, 3 * FIXED,
     710 * FIXED}

InitWeight ==
    /\ draws = <<>>
    /\ frequencies = <<>>
    /\ call = NoCall
    /\ result = Returned(<<>>)
    /\ all_strategies = <<>>
    /\ number_counts = <<>>
    /\ strategies = <<>>
    /\ csv_file = NoFile

(* WeightedFrequencyStrategy(weight_mode, decay_factor)                    *)
(*     ._calculate_weight(position)                                        *)
CalculateWeight(weight_mode, decay_factor, position) ==
    /\ call' = [op |-> "weight", mode |-> weight_mode, n |-> 0,
                decay |-> decay_factor, position |-> position]
    /\ result' = LET weight == _calculate_weight(weight_mode, decay_factor,
                                                 position)
                 IN IF weight.exc = "none" THEN Returned(weight.val)
                    ELSE Raised(weight.exc)
    /\ UNCHANGED <<draws, frequencies, all_strategies, number_counts,
                   strategies, csv_file>>

(* mode_names.get(self.weight_mode, 'Weighted Frequency') *)
get_name(weight_mode) ==
    IF weight_mode = "recent_more" THEN "Recent Weighted MORE (Exponential)"
    ELSE IF weight_mode = "recent_linear" THEN "Recent Weighted MORE (Linear)"
    ELSE IF weight_mode = "recent_less" THEN "Older Weighted MORE"
    ELSE "Weighted Frequency"

(* WeightedFrequencyStrategy(weight_mode, decay_factor).get_name() *)
GetName(weight_mode, decay_factor) ==
    /\ call' = [op |-> "get_name", mode |-> weight_mode, n |-> 0,
                decay |-> decay_factor, position |-> 0]
    /\ result' = Returned(get_name(weight_mode))
    /\ UNCHANGED <<draws, frequencies, all_strategies, number_counts,
                   strategies, csv_file>>

(* weight_mode is any string: the three modes, the key 'older_more' of the *)
(* scripts, a misspelling, the empty string                                *)
AnyWeightModes == WeightModes \cup {"older_more", "recent_mroe", ""}

NextWeight ==
    \/ \E weight_mode \in AnyWeightModes, decay_factor \in DecayFactors,
          position \in Positions :
          call = NoCall /\ CalculateWeight(weight_mode, decay_factor, position)
    \/ \E weight_mode \in AnyWeightModes, decay_factor \in DecayFactors :
          call = NoCall /\ GetName(weight_mode, decay_factor)

SpecWeight == InitWeight /\ [][NextWeight]_vars

WeightCall == call.op = "weight"

(* C13: in recent_linear mode the weight of position p is 0.25 + 0.75*p    *)
(* (to the last digit kept): exactly 0.25 at p = 0, exactly 0.625 at       *)
(* p = 0.5 and exactly 1.0 at p = 1.                                       *)
C13_LinearWeight ==
    (WeightCall /\ call.mode = "recent_linear") =>
        /\ result.exc = "none"
        /\ LET exact == FIXED * FIXED + 3 * FIXED * call.position
               got == 4 * FIXED * result.value
           IN got <= exact /\ exact - got < 4 * FIXED
        /\ call.position = 0 => 4 * result.value = FIXED
        /\ 2 * call.position = FIXED => 8 * result.value = 5 * FIXED
        /\ call.position = FIXED => result.value = FIXED

C13_Witness ==
    /\ WeightCall
    /\ call.mode = "recent_linear"
    /\ 2 * call.position = FIXED
    /\ 8 * result.value = 5 * FIXED

(* the weight of another position under the configuration of the call *)
WeightOf(position) == _calculate_weight(call.mode, call.decay, position)

(* the weight returned is strictly monotonic against every other position, *)
(* increasing for recent_more and recent_linear, decreasing otherwise      *)
StrictlyMonotonic ==
    /\ result.exc = "none"
    /\ \A position \in Positions :
          /\ WeightOf(position).exc = "none"
          /\ position > call.position =>
                IF call.mode \in {"recent_more", "recent_linear"}
                THEN WeightOf(position).val > result.value
                ELSE WeightOf(position).val < result.value

OutcomeUnder(weight_mode) ==
    LET weight == _calculate_weight(weight_mode, call.decay, call.position)
    IN IF weight.exc = "none" THEN Returned(weight.val)
       ELSE Raised(weight.exc)

----------------------------------------------------------------------------
(* ResultFormatter.display_consensus_analysis                              *)

(* the length of the final bet *)
FINAL_BET_SIZE == 8

(* the longest list of a drawn strategy, the numbers it picks from, and    *)
(* the largest union whose every enumeration order is tried                *)
MaxPicks == 2

MaxPick == 3

MaxPermuted == 3

(* the elements of a list *)
Elements(nums) == {nums[i] : i \in 1..Len(nums)}

(* {key: set(nums) for key, nums in all_strategies.items()} *)
strategy_sets(strats) ==
    [i \in 1..Len(strats) |-> <<strats[i][1], Elements(strats[i][2])>>]

(* the union of strategy_sets.values() *)
all_numbers(sets) == UNION {sets[i][2] : i \in 1..Len(sets)}

(* Orders in which "for num in all_numbers" may enumerate a set, which the *)
(* language leaves to the hash table: every order of a small set, and for  *)
(* a larger one the ascending order, cut anywhere and started from there,  *)
(* in either direction.                                                    *)
RECURSIVE Ascending(_)
Ascending(S) ==
    IF S = {} THEN <<>>
    ELSE LET least == CHOOSE x \in S : \A y \in S : x <= y
         IN <<least>> \o Ascending(S \ {least})

Rotated(s, k) == SubSeq(s, k + 1, Len(s)) \o SubSeq(s, 1, k)

Reversed(s) == [i \in 1..Len(s) |-> s[Len(s) + 1 - i]]

SetOrders(S) ==
    IF Cardinality(S) <= MaxPermuted
    THEN {order \in [1..Cardinality(S) -> S] :
             \A i, j \in 1..Cardinality(S) : order[i] = order[j] => i = j}
    ELSE LET rotations == {Rotated(Ascending(S), k) :
                              k \in 0..(Cardinality(S) - 1)}
         IN rotations \cup {Reversed(order) : order \in rotations}

(* CountOf counting every occurrence of num in the lists *)
CountOfOccurrences(num, strats) ==
    Cardinality({ik \in (1..Len(strats)) \X (1..(FINAL_BET_SIZE + 1)) :
                    /\ ik[2] <= Len(strats[ik[1]][2])
                    /\ strats[ik[1]][2][ik[2]] = num})

(* sum(1 for s in strategy_sets.values() if num in s) *)
CountOf(num, strats) ==
    LET sets == strategy_sets(strats)
    IN Cardinality({i \in 1..Len(sets) : num \in sets[i][2]})

(* the number_counts dict, filled in the order all_numbers is enumerated *)
CountNumbers(order, strats) ==
    [i \in 1..Len(order) |-> <<order[i], CountOf(order[i], strats)>>]

(* ConsensusKey without the reference score *)
ConsensusKeyCountOnly(item, simple_freq) == <<item[2], 0>>

(* (x[1], simple_freq.get(x[0], 0) if simple_freq else 0); None and the    *)
(* empty dict are both false and both <<>> here                            *)
ConsensusKey(item, simple_freq) ==
    <<item[2], IF simple_freq # <<>> THEN Get(simple_freq, item[1], 0) ELSE 0>>

(* a < b of two tuples *)
TupleLess(a, b) == a[1] < b[1] \/ (a[1] = b[1] /\ a[2] < b[2])

(* x put into a list sorted by descending key, after the entries whose key *)
(* is not smaller                                                          *)
RECURSIVE InsertByKey(_, _, _)
InsertByKey(sorted, x, simple_freq) ==
    IF sorted = <<>> THEN <<x>>
    ELSE IF TupleLess(ConsensusKey(Head(sorted), simple_freq),
                      ConsensusKey(x, simple_freq))
    THEN <<x>> \o sorted
    ELSE <<Head(sorted)>> \o InsertByKey(Tail(sorted), x, simple_freq)

(* sorted(number_counts.items(), key=..., reverse=True) *)
RECURSIVE consensus_ranking(_, _)
consensus_ranking(items, simple_freq) ==
    IF items = <<>> THEN <<>>
    ELSE InsertByKey(consensus_ranking(SubSeq(items, 1, Len(items) - 1),
                                       simple_freq),
                     items[Len(items)], simple_freq)

(* SortedAscending leaving the list as it is *)
NotSorted(nums) == nums

(* sorted(nums) of a list of numbers *)
RECURSIVE SortedAscending(_)
SortedAscending(nums) ==
    IF nums = <<>> THEN <<>>
    ELSE LET rest == SortedAscending(SubSeq(nums, 1, Len(nums) - 1))
             x == nums[Len(nums)]
             before == Cardinality({i \in 1..Len(rest) : rest[i] <= x})
         IN SubSeq(rest, 1, before) \o <<x>>
                \o SubSeq(rest, before + 1, Len(rest))

(* final_bet of the first seven of the ranking *)
final_betSeven(ranking) ==
    LET top == SliceTo(ranking, FINAL_BET_SIZE - 1)
    IN SortedAscending([i \in 1..Len(top) |-> top[i][1]])

(* sorted([num for num, _ in consensus_ranking[:8]]) *)
final_bet(ranking) ==
    LET top == SliceTo(ranking, FINAL_BET_SIZE)
    IN SortedAscending([i \in 1..Len(top) |-> top[i][1]])

(* Inputs: strategy name to list of recommended numbers *)
PickLists == UNION {[1..k -> 1..MaxPick] : k \in 0..MaxPicks}

OneStrategy(nums) == <<<<"Only Strategy", nums>>>>

TopEight == <<10, 20, 5, 30, 15, 25, 40, 35>>

ThreeStrategies ==
    <<<<"Strategy 1", <<10, 20, 5, 30>>>>,
      <<"Strategy 2", <<10, 20, 15, 25>>>>,
      <<"Strategy 3", <<10, 30, 40, 50>>>>>>

ThreeTopEights ==
    <<<<"simple", TopEight>>,
      <<"weighted", <<10, 20, 30, 35, 45, 55, 6, 26>>>>,
      <<"recent", <<10, 20, 30, 35, 45, 55, 7, 8>>>>>>

StrategyLists ==
    {<<>>, OneStrategy(TopEight),
     OneStrategy(<<1, 2, 3, 4, 5, 6, 7, 8, 9>>),
     OneStrategy(<<60, 59, 58, 57, 56, 55, 54, 53, 1>>),
     ThreeStrategies, ThreeTopEights}
    \cup {OneStrategy(nums) : nums \in PickLists}
    \cup {<<<<"Strategy 1", a>>, <<"Strategy 2", b>>>> :
             a \in PickLists, b \in PickLists}

(* Inputs: the reference scores, none given, or a score for some numbers *)
ScoreOf(num, kind) ==
    IF kind = "rising" THEN Float(num)
    ELSE IF kind = "falling" THEN Float(61 - num)
    ELSE Float(1)

ScoresOver(S, kind) ==
    LET order == Ascending(S)
    IN [i \in 1..Len(order) |-> <<order[i], ScoreOf(order[i], kind)>>]

ReferenceScores ==
    {<<>>, <<<<9, Float(100)>>>>, ScoresOver({2, 3, 20, 35}, "flat")}
    \cup {ScoresOver(NumberDomain, kind) : kind \in {"rising", "falling"}}

InitConsensus ==
    /\ draws = <<>>
    /\ frequencies \in ReferenceScores
    /\ call = NoCall
    /\ result = Returned(<<>>)
    /\ all_strategies \in StrategyLists
    /\ number_counts = <<>>
    /\ strategies = <<>>
    /\ csv_file = NoFile

(* ResultFormatter().display_consensus_analysis(all_strategies,            *)
(*                                              frequencies)               *)
DisplayConsensusAnalysis(order) ==
    /\ call' = [op |-> "consensus", mode |-> "", n |-> 0, decay |-> 0]
    /\ number_counts' = CountNumbers(order, all_strategies)
    /\ result' = Returned(final_bet(consensus_ranking(number_counts',
                                                      frequencies)))
    /\ UNCHANGED <<draws, frequencies, all_strategies, strategies,
                   csv_file>>

NextConsensus ==
    \E order \in SetOrders(all_numbers(strategy_sets(all_strategies))) :
        call = NoCall /\ DisplayConsensusAnalysis(order)

SpecConsensus == InitConsensus /\ [][NextConsensus]_vars

ConsensusCall == call.op = "consensus"

(* the numbers of all the lists, and the strategies listing a number *)
UnionOfLists ==
    UNION {Elements(all_strategies[i][2]) : i \in 1..Len(all_strategies)}

Listing(num) ==
    {i \in 1..Len(all_strategies) :
        \E k \in 1..Len(all_strategies[i][2]) : all_strategies[i][2][k] = num}

(* C15: the tally holds, for every number of the union of the lists and    *)
(* for no other, the number of strategies whose list contains it, a        *)
(* strategy counting once however often its list repeats the number; every *)
(* count lies between 1 and the number of strategies.                      *)
C15_Tally ==
    ConsensusCall =>
        /\ Keys(number_counts) = UnionOfLists
        /\ Len(number_counts) = Cardinality(UnionOfLists)
        /\ \A num \in UnionOfLists :
              /\ Get(number_counts, num, 0) = Cardinality(Listing(num))
              /\ Get(number_counts, num, 0) \in 1..Len(all_strategies)

C15_Witness ==
    /\ ConsensusCall
    /\ Len(all_strategies) = 2
    /\ \E i \in 1..Len(all_strategies), num \in UnionOfLists :
          /\ Cardinality({k \in 1..Len(all_strategies[i][2]) :
                             all_strategies[i][2][k] = num}) > 1
          /\ Get(number_counts, num, 0) = 1

(* (agreement count, reference score) of a number, an absent score being 0 *)
PairOf(num) == <<Cardinality(Listing(num)), Get(frequencies, num, 0)>>

(* C16: no number of the union left out of the final bet has an (agreement *)
(* count, reference score) pair lexicographically greater than that of a   *)
(* number included in the bet.                                             *)
C16_BestPairs ==
    ConsensusCall =>
        \A out \in UnionOfLists \ Elements(result.value),
           in \in Elements(result.value) :
            ~TupleLess(PairOf(in), PairOf(out))

C16_Witness ==
    /\ ConsensusCall
    /\ frequencies # <<>>
    /\ \E out \in UnionOfLists \ Elements(result.value),
          in \in Elements(result.value) :
          /\ PairOf(out)[1] = PairOf(in)[1]
          /\ PairOf(out)[2] < PairOf(in)[2]
    /\ \E out \in UnionOfLists \ Elements(result.value),
          in \in Elements(result.value) : PairOf(out)[1] < PairOf(in)[1]

(* C17: the result is a list of exactly min(8, size of the union) distinct *)
(* numbers, all of the union of the lists, in strictly ascending order,    *)
(* the empty mapping included.                                             *)
C17_BetShape ==
    ConsensusCall =>
        /\ result.exc = "none"
        /\ Len(result.value) = Min(FINAL_BET_SIZE, Cardinality(UnionOfLists))
        /\ Elements(result.value) \subseteq UnionOfLists
        /\ \A i, j \in 1..Len(result.value) :
              i < j => result.value[i] < result.value[j]

C17_Witness ==
    /\ ConsensusCall
    /\ Cardinality(UnionOfLists) > FINAL_BET_SIZE
    /\ Len(result.value) = FINAL_BET_SIZE
    /\ Len(all_strategies) > 1

(* one strategy with a top-N list: N distinct numbers *)
SingleStrategy ==
    /\ ConsensusCall
    /\ Len(all_strategies) = 1
    /\ Cardinality(UnionOfLists) = Len(all_strategies[1][2])

(* C18 as stated: with exactly one strategy, a top-N list for any N and    *)
(* any reference scores, the result is the first 8 numbers of the list     *)
(* sorted ascending.                                                       *)
C18_FirstEight ==
    SingleStrategy =>
        result.value
            = Ascending(Elements(SliceTo(all_strategies[1][2], FINAL_BET_SIZE)))

(* C18 amended: with exactly one strategy and its top-N list, the result   *)
(* is the whole list sorted ascending when N <= 8; when N > 8 it is 8      *)
(* numbers of the list sorted ascending, none of the numbers left out      *)
(* having a greater reference score than one of the 8.                     *)
C18_WholeListOrBestScores ==
    SingleStrategy =>
        IF Len(all_strategies[1][2]) <= FINAL_BET_SIZE
        THEN result.value = Ascending(UnionOfLists)
        ELSE /\ Len(result.value) = FINAL_BET_SIZE
             /\ result.value = Ascending(Elements(result.value))
             /\ Elements(result.value) \subseteq UnionOfLists
             /\ \A out \in UnionOfLists \ Elements(result.value),
                   in \in Elements(result.value) :
                    Get(frequencies, out, 0) <= Get(frequencies, in, 0)

C18_Witness ==
    /\ SingleStrategy
    /\ Len(all_strategies[1][2]) > FINAL_BET_SIZE
    /\ all_strategies[1][2][FINAL_BET_SIZE + 1] \in Elements(result.value)
    /\ \E k \in 1..FINAL_BET_SIZE :
          /\ all_strategies[1][2][k] \notin Elements(result.value)
          /\ Get(frequencies, all_strategies[1][2][k], 0)
                < Get(frequencies, all_strategies[1][2][FINAL_BET_SIZE + 1], 0)

(* the bet display_consensus_analysis builds when the union of the lists   *)
(* is enumerated in the given order                                        *)
BetOf(order) ==
    final_bet(consensus_ranking(CountNumbers(order, all_strategies),
                                frequencies))

(* C27: the final bet is a function of the lists and the reference scores  *)
(* alone: it is the bet of every order in which the numbers of the union   *)
(* can be enumerated, also when numbers tie on both agreement count and    *)
(* reference score at the cut after the 8th place.                         *)
C27_BetOfListsAndScoresAlone ==
    ConsensusCall =>
        \A order \in SetOrders(UnionOfLists) : BetOf(order) = result.value

(* numbers tie on count and score across the cut after the 8th place *)
TieAtCut ==
    LET ranking == consensus_ranking(number_counts, frequencies)
    IN /\ Len(ranking) > FINAL_BET_SIZE
       /\ ConsensusKey(ranking[FINAL_BET_SIZE], frequencies)
              = ConsensusKey(ranking[FINAL_BET_SIZE + 1], frequencies)

(* what holds of the bet: it is the same for every order when no numbers   *)
(* tie across the cut                                                      *)
BetOfListsAndScoresUnlessTied ==
    (ConsensusCall /\ ~TieAtCut) =>
        \A order \in SetOrders(UnionOfLists) : BetOf(order) = result.value

----------------------------------------------------------------------------
(* FrequencyCalculator: the registry of strategies and calculate_all       *)

(* the number of keys strategies are added under *)
MaxKeys == 2

KeyNames == <<"simple", "recent_exp", "recent_linear", "older_more">>

RegistryKeys == {KeyNames[i] : i \in 1..MaxKeys}

(* strategy objects, by their constructor's arguments *)
SimpleStrategy == [kind |-> "simple", mode |-> "", n |-> 0, decay |-> 0]

WeightedStrategy(weight_mode, decay_factor) ==
    [kind |-> "weighted", mode |-> weight_mode, n |-> 0,
     decay |-> decay_factor]

RecentStrategy(n_items, mode) ==
    [kind |-> "recent", mode |-> mode, n |-> n_items, decay |-> 0]

Strategies ==
    {SimpleStrategy, WeightedStrategy("recent_more", DEFAULT_DECAY),
     RecentStrategy(1, "draws"), RecentStrategy(1, "years")}

(* strategy.calculate(rows) *)
Calculate(strategy, rows) ==
    IF strategy.kind = "simple" THEN SimpleCalculate(rows)
    ELSE IF strategy.kind = "weighted"
    THEN WeightedCalculate(rows, strategy.mode, strategy.decay)
    ELSE RecentCalculate(rows, strategy.n, strategy.mode)

(* DictSet dropping every other entry *)
DictSetAlone(m, k, v) == <<<<k, v>>>>

(* m[k] = v: the entry of k replaced where it is, a new key at the end *)
DictSet(m, k, v) ==
    IF k \in Keys(m)
    THEN [i \in 1..Len(m) |-> IF m[i][1] = k THEN <<k, v>> ELSE m[i]]
    ELSE Append(m, <<k, v>>)

(* the loop of calculate_all; st = [exc, value], value the results so far *)
RECURSIVE CalculateEach(_, _, _, _)
CalculateEach(st, registry, i, rows) ==
    IF i > Len(registry) \/ st.exc # "none" THEN st
    ELSE LET one == Calculate(registry[i][2], rows)
         IN IF one.exc # "none" THEN Raised(one.exc)
            ELSE CalculateEach(
                     Returned(DictSet(st.value, registry[i][1], one.value)),
                     registry, i + 1, rows)

calculate_all(registry, rows) == CalculateEach(Returned(<<>>), registry, 1, rows)

(* draws handed to calculate_all *)
RegistryDraws ==
    {<<>>, <<Draw1>>, <<Draw1, Draw2, Draw3>>, <<DrawRepeat, DrawOddText>>,
     <<Draw1, DrawShortLine>>, <<Draw2, DrawBadYear>>}

(* FrequencyCalculator() *)
InitRegistry ==
    /\ draws \in RegistryDraws
    /\ frequencies = <<>>
    /\ call = NoCall
    /\ result = Returned(<<>>)
    /\ all_strategies = <<>>
    /\ number_counts = <<>>
    /\ strategies = <<>>
    /\ csv_file = NoFile

(* calculator.add_strategy(key, strategy), which returns None *)
AddStrategy(key, strategy) ==
    /\ call' = [op |-> "add", key |-> key, strategy |-> strategy]
    /\ strategies' = DictSet(strategies, key, strategy)
    /\ result' = Returned(None)
    /\ UNCHANGED <<draws, frequencies, all_strategies, number_counts,
                   csv_file>>

(* CalculateAll emptying the list it was handed *)
CalculateAllConsuming ==
    /\ call' = [op |-> "all", key |-> "", strategy |-> None]
    /\ result' = calculate_all(strategies, draws)
    /\ draws' = <<>>
    /\ UNCHANGED <<frequencies, all_strategies, number_counts, strategies,
                   csv_file>>

(* calculator.calculate_all(draws) *)
CalculateAll ==
    /\ call' = [op |-> "all", key |-> "", strategy |-> None]
    /\ result' = calculate_all(strategies, draws)
    /\ UNCHANGED <<draws, frequencies, all_strategies, number_counts,
                   strategies, csv_file>>

NextRegistry ==
    \/ \E key \in RegistryKeys, strategy \in Strategies :
          AddStrategy(key, strategy)
    \/ CalculateAll

SpecRegistry == InitRegistry /\ [][NextRegistry]_vars

(* C19: calculate_all(draws) returns exactly one ScoreMap per registered   *)
(* key, and the map under each key equals what that key's strategy         *)
(* returns when its calculate is applied on its own to the same draws.     *)
C19_OneMapPerKey ==
    call.op = "all" =>
        /\ result.exc = "none"
        /\ Keys(result.value) = Keys(strategies)
        /\ Len(result.value) = Len(strategies)
        /\ \A i \in 1..Len(strategies) :
              Returned(Get(result.value, strategies[i][1], None))
                  = Calculate(strategies[i][2], draws)

(* the keys of the registry are distinct *)
DistinctKeys(m) == \A i, j \in 1..Len(m) : m[i][1] = m[j][1] => i = j

(* what one step does to the registry *)
RegistryStep ==
    IF call'.op = "add"
    THEN /\ Keys(strategies') = Keys(strategies) \cup {call'.key}
         /\ DistinctKeys(strategies')
         /\ Get(strategies', call'.key, None) = call'.strategy
         /\ \A key \in Keys(strategies) \ {call'.key} :
               Get(strategies', key, None) = Get(strategies, key, None)
    ELSE strategies' = strategies

(* C20: a new FrequencyCalculator has no strategies; add_strategy(key, s)  *)
(* makes the registry map key to s, the strategy most recently added under *)
(* it, and leaves the entries of all other keys unchanged.                 *)
C20_Registry == strategies = <<>> /\ [][RegistryStep]_vars

(* the key added last was in the registry before, under another strategy,  *)
(* beside another key: a new key would stand at the end                    *)
C20_Witness ==
    /\ call.op = "add"
    /\ Len(strategies) = 2
    /\ strategies[1] = <<call.key, call.strategy>>
    /\ strategies[2][2] # call.strategy

(* what a calculate_all step leaves alone *)
CalculateAllStep ==
    call'.op = "all" =>
        /\ draws' = draws
        /\ strategies' = strategies
        /\ result' = calculate_all(strategies, draws)

(* C21: calculate_all, and with it the calculate of every registered       *)
(* strategy, leaves the draw sequence and its records, the strategies'     *)
(* configuration and the registry as they were, and its result is what the *)
(* registry and the draws give whatever calls were made before.            *)
C21_InputsUntouched == [][CalculateAllStep]_vars

C21_Witness ==
    /\ call.op = "all"
    /\ Len(strategies) = 2
    /\ \E i \in 1..Len(strategies) : strategies[i][2].kind = "recent"
    /\ Len(draws) > 1
    /\ result.exc = "none"
    /\ Len(result.value) = 2

----------------------------------------------------------------------------
(* MegaSenaDataLoader.extract_numbers *)

(* the loop over BALL_COLUMNS; st = [exc, value], value the numbers so far *)
RECURSIVE ExtractLoop(_, _, _)
ExtractLoop(st, draw, k) ==
    IF k > Len(BALL_COLUMNS) THEN st
    ELSE LET number == BallInt(draw, BALL_COLUMNS[k])
         IN IF number.exc = "none"
            THEN ExtractLoop(Returned(Append(st.value, number.val)), draw,
                             k + 1)
            ELSE IF number.exc \in {"ValueError", "KeyError"}
            THEN ExtractLoop(st, draw, k + 1)
            ELSE Raised(number.exc)

extract_numbers(draw) == ExtractLoop(Returned(<<>>), draw, 1)

----------------------------------------------------------------------------
(* The ranking tables of FileManager and ResultFormatter.  A table is the  *)
(* list of its lines, a line the list of its entries <<rank, number,       *)
(* count>>; the text layout of an entry is left out.                       *)

(* the rows of the grid of display_all_numbers_ranking *)
MID_POINT == 30

(* draw[col] of a dict *)
Item(draw, col) == IF col \in DOMAIN draw THEN Ok(draw[col]) ELSE Raise("KeyError")

(* [(num, frequencies.get(num, 0)) for num in range(1, 61)] *)
all_numbers_list(freqs) ==
    [num \in NumberDomain |-> <<num, Get(freqs, num, 0)>>]

(* a sorts before b under the key (-x[1], x[0]) *)
RankBefore(a, b) == a[2] > b[2] \/ (a[2] = b[2] /\ a[1] < b[1])

(* all_numbers_list.sort(key=lambda x: (-x[1], x[0])): each item goes to   *)
(* the place after the items that sort before it and, the sort being       *)
(* stable, after the earlier items of equal key                            *)
SortByRank(items) ==
    LET list == [i \in 1..Len(items) |-> items[i]]
        place == [i \in 1..Len(list) |->
                    1 + Cardinality({j \in 1..Len(list) :
                                        \/ RankBefore(list[j], list[i])
                                        \/ /\ ~RankBefore(list[i], list[j])
                                           /\ j < i})]
    IN [r \in 1..Len(list) |->
           list[CHOOSE i \in 1..Len(list) : place[i] = r]]

(* for i, (number, count) in enumerate(items, 1): one entry a line *)
Table(items) ==
    [i \in 1..Len(items) |-> <<<<i, items[i][1], items[i][2]>>>>]

(* save_frequency_analysis listing all 60 numbers *)
save_frequency_analysisComplete(freqs) ==
    Returned(Table(SortByRank(all_numbers_list(freqs))))

(* save_frequency_analysis: the entries of the map only *)
save_frequency_analysis(freqs) == Returned(Table(SortedByScore(freqs)))

(* save_complete_analysis *)
save_complete_analysis(freqs) ==
    Returned(Table(SortByRank(all_numbers_list(freqs))))

(* the loop over the draws of save_mega_virada_detailed; st = [exc, value] *)
RECURSIVE DrawLines(_, _, _)
DrawLines(st, rows, i) ==
    IF i > Len(rows) \/ st.exc # "none" THEN st
    ELSE LET concurso == Item(rows[i], "Concurso")
             data == Item(rows[i], "Data")
             numbers == extract_numbers(rows[i])
         IN IF concurso.exc # "none" THEN Raised(concurso.exc)
            ELSE IF data.exc # "none" THEN Raised(data.exc)
            ELSE IF numbers.exc # "none" THEN Raised(numbers.exc)
            ELSE DrawLines(
                     Returned(Append(st.value,
                                     <<data.val, concurso.val,
                                       SortedAscending(numbers.value)>>)),
                     rows, i + 1)

(* save_mega_virada_detailed: the lines of the draws, then the table *)
save_mega_virada_detailed(rows, freqs) ==
    LET lines == DrawLines(Returned(<<>>), rows, 1)
    IN IF lines.exc # "none" THEN lines
       ELSE [exc |-> "none",
             value |-> Table(SortByRank(all_numbers_list(freqs))),
             draws |-> lines.value]

(* display_all_numbers_ranking: MID_POINT lines of two entries *)
display_all_numbers_ranking(freqs) ==
    LET list == SortByRank(all_numbers_list(freqs))
    IN Returned([i \in 1..MID_POINT |->
                    IF i + MID_POINT <= Len(list)
                    THEN << <<i, list[i][1], list[i][2]>>,
                            <<i + MID_POINT, list[i + MID_POINT][1],
                              list[i + MID_POINT][2]>> >>
                    ELSE << <<i, list[i][1], list[i][2]>> >>])

(* Inputs: score maps over a few numbers, 61 among them, in any insertion   *)
(* order and with the scores 0 and 2, and some larger maps                 *)
MaxListed == 2

ReportScoreMaps ==
    UNION {{m \in [1..k -> {1, 60, 61} \X {Float(0), Float(2)}] :
               \A i, j \in 1..k : m[i][1] = m[j][1] => i = j} :
           k \in 0..MaxListed}
    \cup {<<<<10, Float(5)>>, <<61, Float(2)>>, <<3, Float(5)>>,
            <<0, Float(9)>>>>,
          ScoresOver(1..12, "rising"),
          ScoresOver(1..12, "flat")}

(* Inputs: the Mega da Virada draws, each with its 'Concurso' column *)
Numbered(row, concurso) ==
    [c \in DOMAIN row \cup {"Concurso"} |->
        IF c = "Concurso" THEN Str(Txt(concurso)) ELSE row[c]]

ReportDraws ==
    {<<>>, <<Numbered(DrawRepeat, 1)>>,
     <<Numbered(DrawRepeat, 1), Numbered(DrawNonNumeric, 2)>>,
     <<Numbered(DrawRepeat, 1), Numbered(DrawShortLine, 2)>>}

InitReport ==
    /\ draws \in ReportDraws
    /\ frequencies \in ReportScoreMaps
    /\ call = NoCall
    /\ result = Returned(<<>>)
    /\ all_strategies = <<>>
    /\ number_counts = <<>>
    /\ strategies = <<>>
    /\ csv_file = NoFile

(* FileManager().save_frequency_analysis(frequencies, title, filename) *)
SaveFrequencyAnalysis ==
    /\ call' = [op |-> "save_frequency", mode |-> "", n |-> 0, decay |-> 0]
    /\ result' = save_frequency_analysis(frequencies)
    /\ UNCHANGED <<draws, frequencies, all_strategies, number_counts,
                   strategies, csv_file>>

(* FileManager().save_complete_analysis(frequencies, title, filename) *)
SaveCompleteAnalysis ==
    /\ call' = [op |-> "save_complete", mode |-> "", n |-> 0, decay |-> 0]
    /\ result' = save_complete_analysis(frequencies)
    /\ UNCHANGED <<draws, frequencies, all_strategies, number_counts,
                   strategies, csv_file>>

(* FileManager().save_mega_virada_detailed(draws, frequencies, loader,     *)
(*                                         filename)                       *)
SaveMegaViradaDetailed ==
    /\ call' = [op |-> "save_mega_virada", mode |-> "", n |-> 0, decay |-> 0]
    /\ result' = save_mega_virada_detailed(draws, frequencies)
    /\ UNCHANGED <<draws, frequencies, all_strategies, number_counts,
                   strategies, csv_file>>

(* ResultFormatter().display_all_numbers_ranking(frequencies, total) *)
DisplayAllNumbersRanking ==
    /\ call' = [op |-> "display_ranking", mode |-> "", n |-> 0, decay |-> 0]
    /\ result' = display_all_numbers_ranking(frequencies)
    /\ UNCHANGED <<draws, frequencies, all_strategies, number_counts,
                   strategies, csv_file>>

NextReport ==
    \/ call = NoCall /\ SaveFrequencyAnalysis
    \/ call = NoCall /\ SaveCompleteAnalysis
    \/ call = NoCall /\ SaveMegaViradaDetailed
    \/ call = NoCall /\ DisplayAllNumbersRanking

SpecReport == InitReport /\ [][NextReport]_vars

(* the entries of a table, line after line *)
RECURSIVE Entries(_)
Entries(table) ==
    IF table = <<>> THEN <<>> ELSE Head(table) \o Entries(Tail(table))

(* the entry of a rank, when there is exactly one *)
EntryOfRank(table, rank) ==
    LET entries == Entries(table)
    IN entries[CHOOSE i \in 1..Len(entries) : entries[i][1] = rank]

(* the 60 entries enumerate each number of 1..60 once, give 0 to a number  *)
(* absent from the map, and rank by score descending, then number          *)
(* ascending                                                               *)
FullRanking(table) ==
    LET entries == Entries(table)
    IN /\ Len(entries) = Cardinality(NumberDomain)
       /\ {entries[i][1] : i \in 1..Len(entries)} = 1..Len(entries)
       /\ {entries[i][2] : i \in 1..Len(entries)} = NumberDomain
       /\ \A i \in 1..Len(entries) :
             entries[i][3] = Get(frequencies, entries[i][2], 0)
       /\ \A rank \in 1..(Len(entries) - 1) :
             LET a == EntryOfRank(table, rank)
                 b == EntryOfRank(table, rank + 1)
             IN a[3] > b[3] \/ (a[3] = b[3] /\ a[2] < b[2])

(* C22: for every score map the full-ranking reports                       *)
(* (save_complete_analysis, save_mega_virada_detailed,                     *)
(* display_all_numbers_ranking) enumerate each number 1..60 exactly once,  *)
(* give score 0 to the numbers absent from the map and order the 60        *)
(* entries by score descending, then number ascending.                     *)
C22_FullRanking ==
    call.op \in {"save_complete", "save_mega_virada", "display_ranking"} =>
        result.exc = "none" /\ FullRanking(result.value)

(* C23 as stated: every file with the 'Rank | Number | Frequency' layout   *)
(* (save_frequency_analysis, save_complete_analysis,                       *)
(* save_mega_virada_detailed) covers the domain 1..60, with a zero-filled  *)
(* row for each number not in the map.                                     *)
C23_CoversDomain ==
    call.op \in {"save_frequency", "save_complete", "save_mega_virada"} =>
        /\ result.exc = "none"
        /\ LET entries == Entries(result.value)
           IN \A num \in NumberDomain :
                 \E i \in 1..Len(entries) :
                    /\ entries[i][2] = num
                    /\ num \notin Keys(frequencies) => entries[i][3] = 0

(* C23 amended: the file of save_complete_analysis has one row for each    *)
(* number of 1..60, zero-filled for the numbers not in the map; the file   *)
(* of save_frequency_analysis has one row for each entry of the map and no *)
(* other, in descending score order, whatever the numbers of the map are.  *)
C23_CompleteCoversFrequencyLists ==
    /\ call.op = "save_complete" =>
          /\ result.exc = "none"
          /\ LET entries == Entries(result.value)
             IN /\ Len(entries) = Cardinality(NumberDomain)
                /\ \A num \in NumberDomain :
                      \E i \in 1..Len(entries) :
                         /\ entries[i] = <<i, num, Get(frequencies, num, 0)>>
                         /\ num \notin Keys(frequencies) => entries[i][3] = 0
    /\ call.op = "save_frequency" =>
          /\ result.exc = "none"
          /\ LET entries == Entries(result.value)
             IN /\ Len(entries) = Len(frequencies)
                /\ \A num \in Keys(frequencies) :
                      \E i \in 1..Len(entries) :
                         entries[i] = <<i, num, Get(frequencies, num, 0)>>
                /\ \A i, j \in 1..Len(entries) :
                      i < j => entries[i][3] >= entries[j][3]

C23_Witness ==
    /\ call.op = "save_frequency"
    /\ Len(frequencies) > 1
    /\ Len(result.value) = Len(frequencies)
    /\ \E i \in 1..Len(result.value) :
          result.value[i][1][2] \notin NumberDomain
    /\ \E num \in NumberDomain :
          \A i \in 1..Len(result.value) : result.value[i][1][2] # num

----------------------------------------------------------------------------
(* MegaSenaDataLoader.  A file is [exists, lines]; a line is [bad, fields], *)
(* bad when its bytes cannot be decoded or parsed, fields its               *)
(* comma-separated texts, none for an empty line.                           *)

MaxLines == 2

(* the key csv.DictReader puts surplus fields under (restkey = None) *)
RESTKEY == "<None>"

Line(fields) == [bad |-> FALSE, fields |-> fields]

BadLine == [bad |-> TRUE, fields |-> <<>>]

(* first_line.strip() is empty: an empty line or one of blanks *)
StripsToNothing(line) ==
    \/ line.fields = <<>>
    \/ Len(line.fields) = 1 /\ Strip(line.fields[1]) = <<>>

(* one row of csv.DictReader: dict(zip(fieldnames, row)), the surplus      *)
(* fields under restkey, the missing ones set to restval = None            *)
DictRow(fieldnames, row) ==
    LET lf == Len(fieldnames)
        lr == Len(row)
        last(c) == CHOOSE k \in 1..lf :
                      fieldnames[k] = c
                      /\ \A j \in (k + 1)..lf : fieldnames[j] # c
    IN [c \in {fieldnames[k] : k \in 1..lf}
              \cup (IF lf < lr THEN {RESTKEY} ELSE {}) |->
           IF c = RESTKEY /\ lf < lr
           THEN [kind |-> "list", text |-> <<>>,
                 items |-> SubSeq(row, lf + 1, lr)]
           ELSE IF last(c) <= lr THEN Str(row[last(c)]) ELSE None]

(* list(csv.DictReader(f)): the first line gives the field names, every    *)
(* later line that is not empty a row                                      *)
RECURSIVE DictRows(_, _, _)
DictRows(fieldnames, lines, i) ==
    IF i > Len(lines) THEN <<>>
    ELSE IF lines[i].fields = <<>> THEN DictRows(fieldnames, lines, i + 1)
    ELSE <<DictRow(fieldnames, lines[i].fields)>>
             \o DictRows(fieldnames, lines, i + 1)

DictReader(lines) ==
    IF lines = <<>> THEN <<>> ELSE DictRows(lines[1].fields, lines, 2)

(* sys.exit(1) *)
Exit(code) == [exc |-> "SystemExit", value |-> <<>>, code |-> code]

(* load_all_draws giving an empty list when the file cannot be read *)
load_all_drawsEmptyOnError(file) ==
    IF ~file.exists \/ \E i \in 1..Len(file.lines) : file.lines[i].bad
    THEN Returned(<<>>)
    ELSE IF file.lines # <<>> /\ StripsToNothing(file.lines[1])
    THEN Returned(DictReader(Tail(file.lines)))
    ELSE Returned(DictReader(file.lines))

(* load_all_draws: any Exception of open, readline or the reader ends in   *)
(* sys.exit(1); a first line that strips to nothing is skipped             *)
load_all_draws(file) ==
    IF ~file.exists \/ \E i \in 1..Len(file.lines) : file.lines[i].bad
    THEN Exit(1)
    ELSE IF file.lines # <<>> /\ StripsToNothing(file.lines[1])
    THEN Returned(DictReader(Tail(file.lines)))
    ELSE Returned(DictReader(file.lines))

(* date.startswith(prefix) *)
StartsWith(t, prefix) ==
    Len(t) >= Len(prefix) /\ SubSeq(t, 1, Len(prefix)) = prefix

(* row.get('Data', ''): the cell, None included, '' when there is no key *)
VIRADA == <<"3", "1", "/", "1", "2", "/">>

(* the loop of load_mega_virada_draws; st = [exc, value] *)
RECURSIVE MegaViradaLoop(_, _, _, _)
MegaViradaLoop(st, rows, i, start_year) ==
    IF i > Len(rows) \/ st.exc # "none" THEN st
    ELSE LET date == GetData(rows[i])
         IN IF date.kind # "str" THEN Raised("AttributeError")
            ELSE IF ~StartsWith(date.text, VIRADA)
            THEN MegaViradaLoop(st, rows, i + 1, start_year)
            ELSE LET year == YearOf(date)
                 IN IF year.exc # "none" THEN Raised(year.exc)
                    ELSE IF year.val >= start_year
                    THEN MegaViradaLoop(Returned(Append(st.value, rows[i])),
                                        rows, i + 1, start_year)
                    ELSE MegaViradaLoop(st, rows, i + 1, start_year)

load_mega_virada_draws(file, start_year) ==
    LET all_draws == load_all_draws(file)
    IN IF all_draws.exc # "none" THEN all_draws
       ELSE MegaViradaLoop(Returned(<<>>), all_draws.value, 1, start_year)

(* the loop of load_draws_by_year_range; st = [exc, value] *)
RECURSIVE YearRangeLoop(_, _, _, _, _)
YearRangeLoop(st, rows, i, start_year, end_year) ==
    IF i > Len(rows) \/ st.exc # "none" THEN st
    ELSE LET date == GetData(rows[i])
         IN IF ~Truthy(date)
            THEN YearRangeLoop(st, rows, i + 1, start_year, end_year)
            ELSE LET year == YearOf(date)
                 IN IF year.exc # "none" THEN Raised(year.exc)
                    ELSE IF start_year <= year.val /\ year.val <= end_year
                    THEN YearRangeLoop(Returned(Append(st.value, rows[i])),
                                       rows, i + 1, start_year, end_year)
                    ELSE YearRangeLoop(st, rows, i + 1, start_year, end_year)

(* an end_year that is given *)
Year(y) == [kind |-> "int", text |-> <<>>, val |-> y]

(* end_year = None stands for datetime.now().year, here the year now *)
load_draws_by_year_range(file, start_year, end_year, now) ==
    LET end == IF end_year = None THEN now ELSE end_year.val
        all_draws == load_all_draws(file)
    IN IF all_draws.exc # "none" THEN all_draws
       ELSE YearRangeLoop(Returned(<<>>), all_draws.value, 1, start_year, end)

(* Inputs: the lines of a file *)
HEADER ==
    <<"Concurso", "Data", "bola 1", "bola 2", "bola 3", "bola 4", "bola 5",
      "bola 6">>

LineOf(concurso, date, balls) ==
    Line(<<Txt(concurso), date.text>>
             \o [k \in 1..Len(balls) |-> Txt(balls[k])])

EmptyLine == Line(<<>>)

BlankLine == Line(<<<<" ", " ">>>>)

(* draws dated 31/12 and not; short lines, the number of the draw alone    *)
(* and a line of five balls; dates without a year; a field too many; a     *)
(* ball that is no number; lines that are empty, blank, unreadable         *)
DataLines ==
    {LineOf(1, Date(31, 12, 2008), <<1, 2, 3, 4, 5, 6>>),
     LineOf(2, Date(25, 3, 2009), <<7, 8, 9, 10, 11, 12>>),
     LineOf(3, Date(31, 12, 2009), <<10, 20, 30, 40, 50, 60>>),
     Line(<<Txt(2500)>>),
     LineOf(4, Date(31, 12, 2010), <<5, 10, 15, 20, 25>>),
     LineOf(5, Str(VIRADA), <<1, 2, 3, 4, 5, 6>>),
     LineOf(6, Str(<<"n", "/", "a">>), <<1, 2, 3, 4, 5, 6>>),
     LineOf(7, Date(30, 12, 2009), <<1, 2, 3, 4, 5, 6, 99>>),
     Line(<<Txt(8), Date(31, 12, 2009).text, Txt(1), <<"x">>, Txt(3), Txt(4),
            Txt(5), Txt(6)>>),
     EmptyLine, BlankLine, BadLine}

(* the files: none at the path, an empty one, and the lines of draws       *)
(* behind the header, which stands after no line, an empty or a blank one, *)
(* or two empty ones, or is a header of other columns                      *)
Files ==
    {NoFile, [exists |-> TRUE, lines |-> <<>>]}
    \cup {[exists |-> TRUE, lines |-> heading \o body] :
             heading \in {<<Line(HEADER)>>, <<EmptyLine, Line(HEADER)>>,
                          <<BlankLine, Line(HEADER)>>,
                          <<EmptyLine, EmptyLine, Line(HEADER)>>,
                          <<Line(<<"Concurso", "Data", "bola 1",
                                   "bola 2">>)>>},
             body \in UNION {[1..k -> DataLines] : k \in 0..MaxLines}}

StartYears == {2008, 2009, 2010}

(* MegaSenaDataLoader(csv_file) *)
InitLoader ==
    /\ draws = <<>>
    /\ frequencies = <<>>
    /\ call = NoCall
    /\ result = Returned(<<>>)
    /\ all_strategies = <<>>
    /\ number_counts = <<>>
    /\ strategies = <<>>
    /\ csv_file \in Files

(* draws = loader.load_all_draws() *)
LoadAllDraws ==
    /\ call' = [op |-> "load_all", start |-> 0, end |-> None, now |-> 0]
    /\ result' = load_all_draws(csv_file)
    /\ draws' = IF result'.exc = "none" THEN result'.value ELSE draws
    /\ UNCHANGED <<frequencies, all_strategies, number_counts, strategies,
                   csv_file>>

(* draws = loader.load_mega_virada_draws(start_year) *)
LoadMegaViradaDraws(start_year) ==
    /\ call' = [op |-> "load_mega_virada", start |-> start_year, end |-> None,
                now |-> 0]
    /\ result' = load_mega_virada_draws(csv_file, start_year)
    /\ draws' = IF result'.exc = "none" THEN result'.value ELSE draws
    /\ UNCHANGED <<frequencies, all_strategies, number_counts, strategies,
                   csv_file>>

(* draws = loader.load_draws_by_year_range(start_year, end_year), in the   *)
(* year now                                                                *)
LoadDrawsByYearRange(start_year, end_year, now) ==
    /\ call' = [op |-> "load_year_range", start |-> start_year,
                end |-> end_year, now |-> now]
    /\ result' = load_draws_by_year_range(csv_file, start_year, end_year, now)
    /\ draws' = IF result'.exc = "none" THEN result'.value ELSE draws
    /\ UNCHANGED <<frequencies, all_strategies, number_counts, strategies,
                   csv_file>>

(* loader.extract_numbers(draws[i]) of a draw loaded before *)
ExtractNumbers(i) ==
    /\ call' = [op |-> "extract", start |-> i, end |-> None, now |-> 0]
    /\ result' = extract_numbers(draws[i])
    /\ UNCHANGED <<draws, frequencies, all_strategies, number_counts,
                   strategies, csv_file>>

NextLoader ==
    \/ call = NoCall /\ LoadAllDraws
    \/ \E start_year \in StartYears :
          call = NoCall /\ LoadMegaViradaDraws(start_year)
    \/ \E start_year \in StartYears,
          end_year \in {Year(y) : y \in StartYears} \cup {None},
          now \in {2009, 2026} :
          /\ call = NoCall
          /\ end_year = None \/ now = 2026
          /\ LoadDrawsByYearRange(start_year, end_year, now)
    \/ \E i \in 1..Len(draws) :
          call.op = "load_all" /\ result.exc = "none" /\ ExtractNumbers(i)

SpecLoader == InitLoader /\ [][NextLoader]_vars

----------------------------------------------------------------------------
(* Properties of the loader *)

(* the file cannot be opened, or a line of it cannot be decoded or parsed *)
Unreadable(file) ==
    ~file.exists \/ \E i \in 1..Len(file.lines) : file.lines[i].bad

(* the lines of the table: the file without its first line when that one   *)
(* strips to nothing                                                       *)
TableLines(file) ==
    IF file.lines # <<>> /\ StripsToNothing(file.lines[1])
    THEN Tail(file.lines) ELSE file.lines

(* the file begins with one stray blank line, the header next *)
StrayBlankFirst(file) ==
    /\ Len(file.lines) >= 2
    /\ StripsToNothing(file.lines[1])
    /\ ~StripsToNothing(file.lines[2])

(* C24: load_all_draws ends in SystemExit with status 1, with no list      *)
(* returned, whenever the file cannot be opened or parsed; of a readable   *)
(* file it returns one row per line after the header that is not empty, in *)
(* the order of the file, the header being the first line or, after one    *)
(* stray blank first line, the second; the rows are then those of the file *)
(* without the blank line.                                                 *)
C24_LoadAllDraws ==
    call.op = "load_all" =>
        IF Unreadable(csv_file)
        THEN /\ result.exc = "SystemExit"
             /\ result.code = 1
             /\ result.value = <<>>
             /\ draws = <<>>
        ELSE LET body == TableLines(csv_file)
                 data == {i \in 2..Len(body) : body[i].fields # <<>>}
             IN /\ result.exc = "none"
                /\ Len(result.value) = Cardinality(data)
                /\ \A i \in data :
                      result.value[Cardinality({j \in data : j <= i})]
                          = DictRow(body[1].fields, body[i].fields)
                /\ StrayBlankFirst(csv_file) =>
                      result = load_all_draws(
                                   [csv_file EXCEPT !.lines = Tail(@)])

(* a file with a stray blank first line and MaxLines draws has been loaded *)
C24_Witness ==
    /\ call.op = "load_all"
    /\ StrayBlankFirst(csv_file)
    /\ result.exc = "none"
    /\ Len(result.value) = MaxLines
    /\ "bola 6" \in DOMAIN result.value[1]

(* the record is dated 31/12 of a year >= start_year *)
IsMegaVirada(row, start_year) ==
    /\ GetData(row).kind = "str"
    /\ StartsWith(GetData(row).text, VIRADA)
    /\ YearOf(GetData(row)).exc = "none"
    /\ YearOf(GetData(row)).val >= start_year

(* the year of the record lies in start_year..end_year *)
IsInYearRange(row, start_year, end_year) ==
    /\ GetData(row).kind = "str"
    /\ YearOf(GetData(row)).exc = "none"
    /\ start_year <= YearOf(GetData(row)).val
    /\ YearOf(GetData(row)).val <= end_year

(* the records of rows that satisfy Test(row), in the order of rows *)
Matching(rows, Test(_)) == SelectSeq(rows, Test)

(* C25: of a readable file load_mega_virada_draws(start_year) returns all  *)
(* and only the records dated 31/12 of a year >= start_year, and           *)
(* load_draws_by_year_range(start, end) all and only the records whose     *)
(* year lies in start..end, in the order of the file.                      *)
C25_ExactFilters ==
    LET all_draws == load_all_draws(csv_file)
        IsVirada(row) == IsMegaVirada(row, call.start)
        end == IF call.end = None THEN call.now ELSE call.end.val
        InRange(row) == IsInYearRange(row, call.start, end)
    IN /\ (call.op = "load_mega_virada" /\ all_draws.exc = "none") =>
              result = Returned(Matching(all_draws.value, IsVirada))
       /\ (call.op = "load_year_range" /\ all_draws.exc = "none") =>
              result = Returned(Matching(all_draws.value, InRange))

(* what holds of the filters: whenever one returns, its list is the exact  *)
(* selection                                                               *)
FiltersExactWhenTheyReturn ==
    LET all_draws == load_all_draws(csv_file)
        IsVirada(row) == IsMegaVirada(row, call.start)
        end == IF call.end = None THEN call.now ELSE call.end.val
        InRange(row) == IsInYearRange(row, call.start, end)
    IN /\ (call.op = "load_mega_virada" /\ result.exc = "none") =>
              result = Returned(Matching(all_draws.value, IsVirada))
       /\ (call.op = "load_year_range" /\ result.exc = "none") =>
              result = Returned(Matching(all_draws.value, InRange))

(* the integer values of the cells of the ball columns that parse, in the  *)
(* order of the columns                                                    *)
ParseableBalls(draw) ==
    LET Parses(col) == BallInt(draw, col).exc = "none"
        cols == SelectSeq(BALL_COLUMNS, Parses)
    IN [k \in 1..Len(cols) |-> BallInt(draw, cols[k]).val]

(* C26: extract_numbers returns, for every record, the integer values of   *)
(* the parseable ball cells in column order, each malformed or absent cell *)
(* left out: at most 6 elements, and 6 when all cells are valid.           *)
C26_ExtractNumbers ==
    call.op = "extract" =>
        /\ result = Returned(ParseableBalls(draws[call.start]))
        /\ Len(result.value) <= Len(BALL_COLUMNS)

(* what holds of extract_numbers: whenever it returns, its list is that of *)
(* the parseable cells                                                     *)
ExtractExactWhenItReturns ==
    (call.op = "extract" /\ result.exc = "none") =>
        result = Returned(ParseableBalls(draws[call.start]))

----------------------------------------------------------------------------
(* The older-more mode against recent-more on the reversed sequence *)

(* Inputs: draws of records with numbers shared and not, a malformed and   *)
(* an absent cell                                                          *)
InitMirror ==
    /\ draws \in UNION {[1..k -> {Draw1, Draw2, Draw3, DrawRepeat,
                                  DrawNonNumeric, DrawShortLine}] :
                            k \in 0..MaxDraws}
    /\ frequencies = <<>>
    /\ call = NoCall
    /\ result = Returned(<<>>)
    /\ all_strategies = <<>>
    /\ number_counts = <<>>
    /\ strategies = <<>>
    /\ csv_file = NoFile

(* WeightedFrequencyStrategy('recent_less', decay_factor).calculate(draws) *)
(* with the decay factors 0.5, the default 2.0, 3, and one past the range  *)
(* of math.exp                                                             *)
NextMirror ==
    \E decay_factor \in {FIXED \div 2, DEFAULT_DECAY, 3 * FIXED, 710 * FIXED} :
        call = NoCall /\ WeightedFrequency("recent_less", decay_factor)

SpecMirror == InitMirror /\ [][NextMirror]_vars

(* two scores of a number with count occurrences differ by no more than    *)
(* the rounding of the weights, 0.005 an occurrence                        *)
Close(a, b, count) ==
    /\ (a - b) * 200 <= count * FIXED
    /\ (b - a) * 200 <= count * FIXED

(* the same exception, or the same keys with scores equal up to rounding *)
SameOutcomeRounded(r1, r2) ==
    /\ r1.exc = r2.exc
    /\ Keys(r1.value) = Keys(r2.value)
    /\ \A k \in Keys(r1.value) :
          Close(Get(r1.value, k, 0), Get(r2.value, k, 0),
                Occurrences(draws, k))

(* recent_more on the draws reversed, with the decay factor of the call *)
RecentMoreReversed ==
    WeightedCalculate(Reversed(draws), "recent_more", call.decay)

(* the numbers whose every occurrence is in the oldest draw *)
OnlyInOldest ==
    {number \in NumbersIn(draws) :
        \A c \in IntegerCells(draws) :
            CellInt(draws, c).val = number => c[1] = 1}

(* the oldest draw contributes weight 1 for each of its numbers *)
OldestWeighsOne ==
    \A number \in OnlyInOldest :
        Get(result.value, number, 0) = Float(Occurrences(draws, number))

OlderMoreCall == call.op = "weighted" /\ call.mode = "recent_less"

(* C28 as stated: for draws of any length, length 1 included, and every    *)
(* decay factor, recent_less on the draws equals recent_more on the draws  *)
(* reversed, and the oldest draw contributes weight 1 per number.          *)
C28_MirrorAnyLength ==
    OlderMoreCall =>
        /\ SameOutcomeRounded(result, RecentMoreReversed)
        /\ result.exc = "none" => OldestWeighsOne

(* C28 amended: for draws of length 2 and more and every decay factor,     *)
(* recent_less on the draws has the outcome of recent_more on the draws    *)
(* reversed, the same exception or the same scores up to rounding, and     *)
(* whenever recent_less returns the oldest draw contributes weight 1 per   *)
(* number.  For a single draw recent_less gives each number 1 an           *)
(* occurrence and recent_more exp(0) / exp(decay) an occurrence.           *)
C28_MirrorFromTwoDraws ==
    OlderMoreCall =>
        /\ Len(draws) # 1 => SameOutcomeRounded(result, RecentMoreReversed)
        /\ result.exc = "none" => OldestWeighsOne
        /\ (Len(draws) = 1 /\ result.exc = "none") =>
              /\ RecentMoreReversed.exc = "none"
              /\ \A number \in NumbersIn(draws) :
                    Get(RecentMoreReversed.value, number, 0)
                        = Occurrences(draws, number)
                              * ExpRatio(0, call.decay).val

(* three draws weighted older-more, the oldest with numbers of its own *)
C28_Witness ==
    /\ OlderMoreCall
    /\ result.exc = "none"
    /\ Len(draws) = MaxDraws
    /\ OnlyInOldest # {}
    /\ NumbersIn(draws) # OnlyInOldest

----------------------------------------------------------------------------
(* The Simple strategy and the order of the draws *)

(* the draws in every order *)
Orderings(rows) ==
    {[i \in 1..Len(rows) |-> rows[p[i]]] :
        p \in {q \in [1..Len(rows) -> 1..Len(rows)] :
                  \A i, j \in 1..Len(rows) : q[i] = q[j] => i = j}}

(* C29: SimpleFrequencyStrategy.calculate depends only on the multiset of  *)
(* records: on every permutation of the draws, the reversed draws among    *)
(* them, it has the outcome it has on the draws, every number mapped to    *)
(* the same score.                                                         *)
C29_OrderOfDrawsIrrelevant ==
    call.op = "simple" =>
        \A permuted \in Orderings(draws) :
            SameOutcome(result, SimpleCalculate(permuted))

(* scores returned for MaxDraws draws of which the oldest and the newest   *)
(* hold different numbers                                                  *)
C29_Witness ==
    /\ call.op = "simple"
    /\ result.exc = "none"
    /\ Len(draws) = MaxDraws
    /\ NumbersIn(<<draws[1]>>) # NumbersIn(<<draws[MaxDraws]>>)
    /\ Reversed(draws) \in Orderings(draws)

====
